---- MODULE Spec2Model ----
(***************************************************************************)
(* Model of the columnar data codec of src/milvus/grpc/Data.ts:            *)
(* Data.insert (row -> column encoding), Data.search (request building     *)
(* and result decoding), Data.query (result decoding) and the polling loop *)
(* of Data.flushSync.  Arrays are 0-based in the source and 1-based here;  *)
(* every definition that reads an array by a source index i reads          *)
(* position i + 1.                                                         *)
(***************************************************************************)
EXTENDS Integers, Sequences, FiniteSets, TLC

VARIABLES
  collectionInfo,  \* what describeCollection answers: status and schema
  ins_pc,          \* position of Data.insert
  ins_data,        \* the InsertReq handed to Data.insert
  ins_params,      \* the params object handed to the Insert RPC
  ins_err,         \* the Error thrown by Data.insert
  ins_ret,         \* the value Data.insert resolves to
  ins_caller,      \* the caller's request object as it is now
  sr_pc,           \* position of Data.search
  sr_data,         \* the SearchReq / SearchSimpleReq handed to Data.search
  sr_req,          \* what search derived from the schema and sent with Search
  sr_promise,      \* the SearchRes answered by the Search RPC
  sr_ret,          \* the value Data.search resolves to
  sr_err,          \* the Error thrown by Data.search
  q_pc,            \* position of Data.query
  q_data,          \* the QueryReq handed to Data.query
  q_req,           \* the query_params sent with the Query RPC
  q_promise,       \* the QueryRes answered by the Query RPC
  q_ret,           \* the value Data.query resolves to
  q_err,           \* the Error thrown by Data.query
  fl_pc,           \* position of Data.flushSync
  fl_data,         \* the FlushReq handed to Data.flushSync
  fl_res,          \* res, the response of the Flush RPC
  fl_segIDs,       \* segIDs, collected from the Flush response
  fl_flushRes,     \* flushRes, the last GetFlushState response
  fl_isFlushed,    \* isFlushed
  fl_ret,          \* the value Data.flushSync resolves to
  fl_err,          \* the Error thrown by Data.flushSync
  fl_polls,        \* the GetFlushState requests sent so far (counted up to MaxPolls)
  fl_sleeps,       \* the sleep(100) calls completed since the last GetFlushState response
  srv_flushed,     \* whether the server holds the segments flushed
  rpcLog           \* the RPCs issued by insert, search and query so far, in order

vars == <<collectionInfo, ins_pc, ins_data, ins_params, ins_err, ins_ret, ins_caller,
          sr_pc, sr_data, sr_req, sr_promise, sr_ret, sr_err,
          q_pc, q_data, q_req, q_promise, q_ret, q_err,
          fl_pc, fl_data, fl_res, fl_segIDs, fl_flushRes, fl_isFlushed, fl_ret, fl_err,
          fl_polls, fl_sleeps, srv_flushed, rpcLog>>

ins_vars == <<ins_pc, ins_data, ins_params, ins_err, ins_ret, ins_caller>>
sr_vars == <<sr_pc, sr_data, sr_req, sr_promise, sr_ret, sr_err>>
q_vars == <<q_pc, q_data, q_req, q_promise, q_ret, q_err>>
fl_vars == <<fl_pc, fl_data, fl_res, fl_segIDs, fl_flushRes, fl_isFlushed, fl_ret, fl_err,
             fl_polls, fl_sleeps, srv_flushed>>

----------------------------------------------------------------------------
(* Bounds *)

MaxFields == 2     \* fields of a collection schema
MaxRows == 2       \* rows of one insert request
MaxCells == 2      \* (key, value) pairs of one insert request, all rows together
MaxNq == 2         \* entries of topks in one search response
MaxTopk == 3       \* largest entry of topks

----------------------------------------------------------------------------
(* JavaScript values *)

Null == [t |-> "null"]
Undefined == [t |-> "undefined"]
Hole == [t |-> "hole"]
Num(n) == [t |-> "number", v |-> n]
Obj(s) == [t |-> "object", v |-> s]
Buf(s) == [t |-> "Buffer", v |-> s]
Str(x) == [t |-> "string", v |-> x]
Arr(x) == [t |-> "array", v |-> x]
NoErr == [kind |-> "none"]
Err(k, d) == [kind |-> k, detail |-> d]

\* Number(undefined): the dimension of a field without a 'dim' type param
NaN == -1
NoDim == -2

RECURSIVE SumSeq(_)
SumSeq(s) == IF s = <<>> THEN 0 ELSE s[1] + SumSeq(Tail(s))

----------------------------------------------------------------------------
(* Data types *)

VectorTypes == {"BinaryVector", "FloatVector"}

DataTypeNames ==
  {"Bool", "Int8", "Int16", "Int32", "Int64", "Float", "Double", "String",
   "VarChar", "JSON", "BinaryVector", "FloatVector"}

\* DataTypeMap[declared type string]: the DataType member, or undefined
DataTypeMap(t) == IF t \in DataTypeNames THEN t ELSE "undefined"

----------------------------------------------------------------------------
(* Data.insert *)

\* Number(findKeyValue(v.type_params, 'dim'))
ResolveDim(f) == IF f.dim = NoDim THEN NaN ELSE f.dim

\* (mutant: the autoID primary key is kept in the Map)
KeepEveryField(v) == TRUE

\* (mutant: every primary key is left out of the Map)
KeepNonPrimary(v) == ~v.is_primary_key

\* .filter(v => !v.is_primary_key || !v.autoID)
KeepField(v) == ~v.is_primary_key \/ ~v.autoID

\* the Map fieldsData, as the sequence of its values in insertion order
ResolveFields(fields) ==
  LET kept == SelectSeq(fields, KeepField)
  IN [k \in 1..Len(kept) |->
        [name |-> kept[k].name, type |-> kept[k].data_type,
         dim |-> ResolveDim(kept[k]), value |-> <<>>]]

\* fieldsData.get(name): the position of the entry, 0 when there is none
MapGet(fd, name) ==
  IF \E k \in 1..Len(fd) : fd[k].name = name
  THEN CHOOSE k \in 1..Len(fd) : fd[k].name = name
  ELSE 0

\* (mutant: the length is compared with dim, not with dim / 8)
WrongDimInBits(len, dim) == dim = NaN \/ len # dim

\* v[name].length !== target.dim / 8
WrongDim(len, dim) == dim = NaN \/ len * 8 # dim

\* (mutant: the value is pushed instead of set at the row's index)
SetAtByPush(arr, i, x) == Append(arr, x)

\* arr[i] = x on a JavaScript array (i is the 0-based source index)
SetAt(arr, i, x) ==
  [k \in 1..(IF i + 1 > Len(arr) THEN i + 1 ELSE Len(arr)) |->
     IF k = i + 1 THEN x ELSE IF k <= Len(arr) THEN arr[k] ELSE Hole]

\* JSON.stringify of the values the model draws
JSONStringify(x) ==
  CASE x.t = "object" -> x.v
    [] x.t = "number" -> ToString(x.v)
    [] OTHER -> "null"

\* v[name] || {}
Falsy(x) == x.t \in {"null", "undefined"} \/ (x.t = "number" /\ x.v = 0)

OrEmptyObject(x) == IF Falsy(x) THEN Obj("{}") ELSE x

\* the body of fieldNames.forEach for key kv of row i
EncodeKey(acc, i, kv) ==
  IF acc.err # NoErr THEN acc
  ELSE
    LET k == MapGet(acc.fd, kv.name) IN
    IF k = 0 THEN [acc EXCEPT !.err = Err("INSERT_CHECK_WRONG_FIELD", i)]
    ELSE
      LET target == acc.fd[k]
          type == DataTypeMap(target.type)
      IN
      IF type = "BinaryVector" /\ WrongDim(Len(kv.value), target.dim)
      THEN [acc EXCEPT !.err = Err("INSERT_CHECK_WRONG_DIM", 0)]
      ELSE IF type \in VectorTypes
      THEN [acc EXCEPT !.fd[k].value = target.value \o kv.value]
      ELSE IF type = "JSON"
      THEN [acc EXCEPT !.fd[k].value =
              SetAt(target.value, i, Buf(JSONStringify(OrEmptyObject(kv.value))))]
      ELSE [acc EXCEPT !.fd[k].value = SetAt(target.value, i, kv.value)]

RECURSIVE EncodeRow(_, _, _)
EncodeRow(acc, i, row) ==
  IF row = <<>> THEN acc
  ELSE EncodeRow(EncodeKey(acc, i, row[1]), i, Tail(row))

\* data.fields_data.forEach((v, i) => ...), from row i on
RECURSIVE EncodeRows(_, _, _)
EncodeRows(acc, rows, i) ==
  IF i >= Len(rows) THEN acc
  ELSE EncodeRows(EncodeRow(acc, i, rows[i + 1]), rows, i + 1)

\* (mutant: the default case keeps the initial dataKey instead of throwing)
DataKeyOrFloatVector(type) ==
  CASE type = "BinaryVector" -> "binary_vector"
    [] type = "Double" -> "double_data"
    [] type = "Float" -> "float_data"
    [] type = "Int64" -> "long_data"
    [] type \in {"Int32", "Int16", "Int8"} -> "int_data"
    [] type = "Bool" -> "bool_data"
    [] type = "VarChar" -> "string_data"
    [] type = "JSON" -> "json_data"
    [] OTHER -> "float_vector"

\* the switch on the DataType that selects the wire data key
DataKey(type) ==
  CASE type = "FloatVector" -> "float_vector"
    [] type = "BinaryVector" -> "binary_vector"
    [] type = "Double" -> "double_data"
    [] type = "Float" -> "float_data"
    [] type = "Int64" -> "long_data"
    [] type \in {"Int32", "Int16", "Int8"} -> "int_data"
    [] type = "Bool" -> "bool_data"
    [] type = "VarChar" -> "string_data"
    [] type = "JSON" -> "json_data"
    [] OTHER -> "throw"

\* parseBinaryVectorToBytes: one byte per element of the flat array
ParseBinaryVectorToBytes(arr) == [k \in 1..Len(arr) |-> arr[k] % 256]

\* one element of params.fields_data
Column(v) ==
  LET type == DataTypeMap(v.type) IN
  [type |-> type,
   field_name |-> v.name,
   key |-> IF type \in VectorTypes THEN "vectors" ELSE "scalars",
   dataKey |-> DataKey(type),
   dim |-> IF type \in VectorTypes THEN v.dim ELSE NoDim,
   data |-> IF type = "BinaryVector" THEN ParseBinaryVectorToBytes(v.value)
            ELSE v.value]

\* Array.from(fieldsData.values()).map(...): the columns, or the first throw
BuildFieldsData(fd) ==
  LET bad == {k \in 1..Len(fd) : DataKey(DataTypeMap(fd[k].type)) = "throw"} IN
  IF bad # {}
  THEN [err |-> Err("INSERT_CHECK_WRONG_DATA_TYPE",
                    fd[CHOOSE k \in bad : \A j \in bad : k <= j].type),
        cols |-> <<>>]
  ELSE [err |-> NoErr, cols |-> [k \in 1..Len(fd) |-> Column(fd[k])]]

\* the caller's request object, with the properties insert reads or could write
CallerObject(data) ==
  [collection_name |-> data.collection_name,
   fields_data |-> Arr(data.fields_data),
   num_rows |-> Undefined]

\* (mutant: params is the caller's request object itself, not a copy of it)
ParamsIsData == "data"

\* the object `params` names: the new object made by { ...data, num_rows }
ParamsObject == "params"

\* const params = { ...data, num_rows: data.fields_data.length }, on the
\* objects `data` and `params` name
SpreadParams(objs, num_rows) ==
  [objs EXCEPT ![ParamsObject] = [objs.data EXCEPT !.num_rows = Num(num_rows)]]

\* params.fields_data = Array.from(fieldsData.values()).map(...)
AssignFieldsData(objs, cols) ==
  [objs EXCEPT ![ParamsObject].fields_data = [t |-> "columns", v |-> cols]]

\* the synchronous part of insert after describeCollection answered
EncodeInsert(fields, rows) ==
  LET acc == EncodeRows([err |-> NoErr, fd |-> ResolveFields(fields)], rows, 0) IN
  IF acc.err # NoErr THEN [err |-> acc.err, cols |-> <<>>]
  ELSE BuildFieldsData(acc.fd)

----------------------------------------------------------------------------
(* The collection schemas and the requests the model draws *)

Field(n, ty, pk, auto, d) ==
  [name |-> n, data_type |-> ty, is_primary_key |-> pk, autoID |-> auto, dim |-> d]

FieldPool ==
  {Field("id", "Int64", TRUE, TRUE, NoDim),
   Field("id", "Int64", TRUE, FALSE, NoDim),
   Field("fv", "FloatVector", FALSE, FALSE, 2),
   Field("fv", "FloatVector", FALSE, FALSE, NoDim),
   Field("bv", "BinaryVector", FALSE, FALSE, 8),
   Field("bv", "BinaryVector", FALSE, FALSE, NoDim),
   Field("js", "JSON", FALSE, FALSE, NoDim),
   Field("s", "String", FALSE, FALSE, NoDim)}

DistinctNames(s) == \A i, j \in 1..Len(s) : i # j => s[i].name # s[j].name
DistinctFieldNames(s) == \A i, j \in 1..Len(s) : i # j => s[i].field_name # s[j].field_name

SeqsUpTo(S, n) == UNION {[1..k -> S] : k \in 0..n}

SchemasOver(pool) ==
  {s \in SeqsUpTo(pool, MaxFields) : Len(s) >= 1 /\ DistinctNames(s)}

Success == [error_code |-> "Success", reason |-> ""]
Failure == [error_code |-> "UnexpectedError", reason |-> "server reason"]

\* the answers of describeCollection: a schema, or an error status without one
CollectionInfosOver(pool) ==
  {[status |-> Success, schema |-> [fields |-> s]] : s \in SchemasOver(pool)}
    \cup {[status |-> Failure, schema |-> Null]}

\* the values a caller who knows the schema supplies for a field of a type
ValuesFor(ty) ==
  CASE ty = "FloatVector" -> {<<1, 2>>, <<3>>}
    [] ty = "BinaryVector" -> {<<5>>, <<5, 6>>}
    [] ty = "JSON" -> {Null, Num(0), Obj("{a:1}")}
    [] OTHER -> {Num(7)}

KeyValues(fields) ==
  {[name |-> "ghost", value |-> Num(7)]}
    \cup UNION {{[name |-> fields[k].name, value |-> v] :
                   v \in ValuesFor(fields[k].data_type)} : k \in 1..Len(fields)}

\* row objects of at most c keys, as the sequence of their keys in Object.keys order
RowsUpTo(fields, c) == {r \in SeqsUpTo(KeyValues(fields), c) : DistinctNames(r)}

\* at most r rows holding at most c (key, value) pairs together
RECURSIVE RowSeqs(_, _, _)
RowSeqs(fields, r, c) ==
  IF r = 0 THEN {<<>>}
  ELSE {<<>>} \cup UNION {{<<row>> \o rest : rest \in RowSeqs(fields, r - 1, c - Len(row))} :
                            row \in RowsUpTo(fields, c)}

InsertReqs(info) ==
  LET fields == IF info.schema = Null THEN <<>> ELSE info.schema.fields IN
  {[collection_name |-> TRUE, fields_data |-> rows] : rows \in RowSeqs(fields, MaxRows, MaxCells)}
    \cup {[collection_name |-> FALSE, fields_data |-> <<>>]}

----------------------------------------------------------------------------
(* Data.insert, step by step *)

\* checkCollectionName and the fields_data check, then describeCollection is issued
InsertStart ==
  /\ ins_pc = "idle"
  /\ \E data \in InsertReqs(collectionInfo) :
       /\ ins_data' = data
       /\ ins_caller' = CallerObject(data)
       /\ IF ~data.collection_name
          THEN /\ ins_err' = Err("COLLECTION_NAME_IS_REQUIRED", 0)
               /\ ins_pc' = "failed"
               /\ UNCHANGED rpcLog
          ELSE IF Len(data.fields_data) = 0
          THEN /\ ins_err' = Err("INSERT_CHECK_FIELD_DATA_IS_REQUIRED", 0)
               /\ ins_pc' = "failed"
               /\ UNCHANGED rpcLog
          ELSE /\ ins_pc' = "describing"
               /\ rpcLog' = Append(rpcLog, "DescribeCollection")
               /\ UNCHANGED ins_err
  /\ UNCHANGED <<collectionInfo, ins_params, ins_ret, sr_vars, q_vars, fl_vars>>

\* describeCollection answered: status check, encoding, then Insert is issued
InsertDescribed ==
  /\ ins_pc = "describing"
  /\ IF collectionInfo.status.error_code # "Success"
     THEN /\ ins_err' = Err("reason", collectionInfo.status.reason)
          /\ ins_pc' = "failed"
          /\ UNCHANGED <<ins_params, ins_caller, rpcLog>>
     ELSE LET copied == SpreadParams([data |-> ins_caller, params |-> Null],
                                     Len(ins_data.fields_data))
              enc == EncodeInsert(collectionInfo.schema.fields, ins_data.fields_data)
              assigned == AssignFieldsData(copied, enc.cols)
          IN
          IF enc.err # NoErr
          THEN /\ ins_err' = enc.err
               /\ ins_pc' = "failed"
               /\ ins_caller' = copied.data
               /\ UNCHANGED <<ins_params, rpcLog>>
          ELSE /\ ins_params' = [num_rows |-> assigned[ParamsObject].num_rows.v,
                                 fields_data |-> assigned[ParamsObject].fields_data.v]
               /\ ins_caller' = assigned.data
               /\ rpcLog' = Append(rpcLog, "Insert")
               /\ ins_pc' = "inserting"
               /\ UNCHANGED ins_err
  /\ UNCHANGED <<collectionInfo, ins_data, ins_ret, sr_vars, q_vars, fl_vars>>

\* the Insert RPC answered: its MutationResult is returned as it is
InsertResponded ==
  /\ ins_pc = "inserting"
  /\ \E status \in {Success, Failure} :
       ins_ret' = [status |-> status]
  /\ ins_pc' = "done"
  /\ UNCHANGED <<collectionInfo, ins_data, ins_params, ins_err, ins_caller, rpcLog,
                 sr_vars, q_vars, fl_vars>>

InsertIdle ==
  /\ ins_pc = "idle" /\ ins_data = Null /\ ins_params = Null
  /\ ins_err = NoErr /\ ins_ret = Null /\ ins_caller = Null

SearchIdle ==
  /\ sr_pc = "idle" /\ sr_data = Null /\ sr_req = Null
  /\ sr_promise = Null /\ sr_ret = Null /\ sr_err = NoErr

QueryIdle ==
  /\ q_pc = "idle" /\ q_data = Null /\ q_req = Null
  /\ q_promise = Null /\ q_ret = Null /\ q_err = NoErr

FlushIdle ==
  /\ fl_pc = "idle" /\ fl_data = Null /\ fl_res = Null /\ fl_segIDs = <<>>
  /\ fl_flushRes = Null /\ fl_isFlushed = FALSE /\ fl_ret = Null /\ fl_err = NoErr
  /\ fl_polls = 0 /\ fl_sleeps = 0

InsertInit ==
  /\ collectionInfo \in CollectionInfosOver(FieldPool)
  /\ InsertIdle /\ SearchIdle /\ QueryIdle /\ FlushIdle /\ srv_flushed = FALSE
  /\ rpcLog = <<>>

InsertNext == InsertStart \/ InsertDescribed \/ InsertResponded

InsertSpec == InsertInit /\ [][InsertNext]_vars

----------------------------------------------------------------------------
(* Data.search: building the request *)

\* the locals of the loop over collectionInfo.schema.fields, before the loop
ClassifyInit ==
  [vectorType |-> "undefined", anns_field |-> "undefined",
   dim |-> [n |-> 0, over |-> 1], defaultOutputFields |-> <<>>]

\* (mutant: the loop stops caring once a vector field was found)
ClassifyStepKeepFirst(st, f) ==
  LET type == DataTypeMap(f.data_type) IN
  IF type = "FloatVector" \/ type = "BinaryVector"
  THEN IF st.vectorType # "undefined" THEN st
       ELSE [st EXCEPT !.dim = [n |-> ResolveDim(f),
                                over |-> IF type = "BinaryVector" THEN 8 ELSE 1],
                       !.anns_field = f.name,
                       !.vectorType = type]
  ELSE [st EXCEPT !.defaultOutputFields = Append(st.defaultOutputFields, f.name)]

\* one iteration of the loop over collectionInfo.schema.fields
ClassifyStep(st, f) ==
  LET type == DataTypeMap(f.data_type) IN
  IF type = "FloatVector" \/ type = "BinaryVector"
  THEN [st EXCEPT !.dim = [n |-> ResolveDim(f),
                           over |-> IF type = "BinaryVector" THEN 8 ELSE 1],
                  !.anns_field = f.name,
                  !.vectorType = type]
  ELSE [st EXCEPT !.defaultOutputFields = Append(st.defaultOutputFields, f.name)]

RECURSIVE ClassifyFrom(_, _, _)
ClassifyFrom(st, fields, i) ==
  IF i >= Len(fields) THEN st
  ELSE ClassifyFrom(ClassifyStep(st, fields[i + 1]), fields, i + 1)

ClassifyFields(fields) == ClassifyFrom(ClassifyInit, fields, 0)

\* data.search_params || { anns_field, ... }
SearchParams(data, anns_field) ==
  IF data.search_params # Null THEN data.search_params
  ELSE [anns_field |-> anns_field, round_decimal |-> Undefined]

\* data.vectors || [data.vector]
SearchVectors(data) ==
  IF data.vectors # Null THEN data.vectors.v ELSE <<data.vector.v>>

\* (mutant: the simple shape's params.round_decimal is looked at first)
RoundDecimalParamsFirst(data) ==
  LET a == IF data.search_params = Null THEN Undefined
           ELSE data.search_params.round_decimal
      b == IF data.params = Null THEN Undefined ELSE data.params.round_decimal
  IN IF b # Undefined /\ b # Null THEN b ELSE a

\* data.search_params?.round_decimal ?? data.params?.round_decimal
RoundDecimal(data) ==
  LET a == IF data.search_params = Null THEN Undefined
           ELSE data.search_params.round_decimal
      b == IF data.params = Null THEN Undefined ELSE data.params.round_decimal
  IN IF a # Undefined /\ a # Null THEN a ELSE b

\* the placeholder '$0': the vector type and one packed value per query vector
Placeholder(vectorType, searchVectors) ==
  [tag |-> "$0",
   type |-> vectorType,
   values |-> [k \in 1..Len(searchVectors) |->
                 [packing |-> IF vectorType = "BinaryVector" THEN "binary" ELSE "float",
                  of |-> searchVectors[k]]]]

\* everything search computes between describeCollection and the Search RPC
\* (the requests drawn carry no nq, so nq is searchVectors.length)
BuildSearch(fields, data) ==
  LET c == ClassifyFields(fields)
      searchVectors == SearchVectors(data)
  IN [search_params |-> SearchParams(data, c.anns_field),
      round_decimal |-> RoundDecimal(data),
      placeholder |-> Placeholder(c.vectorType, searchVectors),
      output_fields |-> IF data.output_fields # Null THEN data.output_fields
                        ELSE c.defaultOutputFields,
      nq |-> Len(searchVectors),
      dim |-> c.dim]

----------------------------------------------------------------------------
(* Data.search: decoding the response *)

\* arr[i] on a JavaScript array or string (i is the 0-based source index)
At(arr, i) == IF i + 1 \in 1..Len(arr) THEN arr[i + 1] ELSE Undefined

Min(a, b) == IF a < b THEN a ELSE b

RECURSIVE Pow10(_)
Pow10(n) == IF n <= 0 THEN 1 ELSE 10 * Pow10(n - 1)

\* scores are held in units of 10^-ScoreDigits
ScoreDigits == 2

\* formatNumberPrecision(score, precision): the score at `precision` decimal digits
FormatNumberPrecision(score, precision) ==
  IF precision >= ScoreDigits THEN score
  ELSE LET unit == Pow10(ScoreDigits - precision)
       IN ((2 * score + unit) \div (2 * unit)) * unit

\* typeof round_decimal === 'undefined' || round_decimal === -1 ? score : format
FixedScore(score, round_decimal) ==
  IF round_decimal = Undefined \/ round_decimal = Num(-1) THEN score
  ELSE FormatNumberPrecision(score, round_decimal.v)

\* fields_data.map(...): the data of each output column, '' when it has none
FieldsData(fields_data) ==
  [k \in 1..Len(fields_data) |->
     [type |-> fields_data[k].type,
      field_name |-> fields_data[k].field_name,
      data |-> IF fields_data[k].field # "undefined" THEN fields_data[k].data ELSE <<>>]]

\* ids ? ids[ids.id_field]?.data : undefined
IdData(ids) == IF ids = Null THEN Undefined ELSE Arr(ids.data)

\* scores.splice(0, topk): what it returns, and what it leaves in scores
Spliced(scores, topk) == SubSeq(scores, 1, Min(topk, Len(scores)))
\* (mutant: slice instead of splice, the scores array keeps its front)
RemainingAfterSlice(scores, topk) == scores
Remaining(scores, topk) == SubSeq(scores, Min(topk, Len(scores)) + 1, Len(scores))

\* const i = index === 0 ? scoreIndex : scoreIndex + topk
ResultIndex(index, scoreIndex, topk) ==
  IF index = 0 THEN scoreIndex ELSE scoreIndex + topk

\* JSON.parse(buffer.toString()) of the JSON texts the model draws
JSONParse(b) ==
  CASE b.v = "null" -> Null
    [] b.v = "0" -> Num(0)
    [] OTHER -> Obj(b.v)

\* the value of one output field in the result row read at index i
FieldValue(field, i) ==
  IF field.type = "JSON"
  THEN IF At(field.data, i) = Undefined THEN [t |-> "throw"]
       ELSE JSONParse(At(field.data, i))
  ELSE At(field.data, i)

\* the result row built for one spliced score
ResultRow(score, i, round_decimal, idData, fieldsData) ==
  [score |-> FixedScore(score, round_decimal),
   id |-> IF idData # Undefined THEN At(idData.v, i) ELSE Str(""),
   fields |-> [k \in 1..Len(fieldsData) |->
                 [field_name |-> fieldsData[k].field_name,
                  value |-> FieldValue(fieldsData[k], i)]]]

Throws(row) == \E k \in 1..Len(row.fields) : row.fields[k].value = [t |-> "throw"]

\* topks.forEach((v, index) => ...), from query `index` on; st holds the scores
\* left in the array, the results pushed so far and whether a row threw
RECURSIVE DecodeFrom(_, _, _, _, _, _)
DecodeFrom(st, topks, index, round_decimal, idData, fieldsData) ==
  IF index >= Len(topks) \/ st.threw THEN st
  ELSE
    LET topk == topks[index + 1]
        spliced == Spliced(st.scores, topk)
        rows == [k \in 1..Len(spliced) |->
                   ResultRow(spliced[k], ResultIndex(index, k - 1, topk),
                             round_decimal, idData, fieldsData)]
        bad == {k \in 1..Len(rows) : Throws(rows[k])}
        good == IF bad = {} THEN rows
                ELSE SubSeq(rows, 1, (CHOOSE k \in bad : \A j \in bad : k <= j) - 1)
    IN DecodeFrom([scores |-> Remaining(st.scores, topk),
                   results |-> st.results \o good,
                   threw |-> bad # {}],
                  topks, index + 1, round_decimal, idData, fieldsData)

\* the decoding of promise.results into rows
DecodeResults(results, round_decimal) ==
  IF results = Null THEN [scores |-> <<>>, results |-> <<>>, threw |-> FALSE]
  ELSE DecodeFrom([scores |-> results.scores, results |-> <<>>, threw |-> FALSE],
                  results.topks, 0, round_decimal,
                  IdData(results.ids), FieldsData(results.fields_data))

----------------------------------------------------------------------------
(* The search requests and responses the model draws *)

SearchFieldPool ==
  {Field("id", "Int64", TRUE, TRUE, NoDim),
   Field("fv", "FloatVector", FALSE, FALSE, 2),
   Field("bv", "BinaryVector", FALSE, FALSE, 8),
   Field("js", "JSON", FALSE, FALSE, NoDim)}

SimpleReq(rd) ==
  [valid |-> TRUE, search_params |-> Null, vectors |-> Null, vector |-> Arr(<<1, 2>>),
   params |-> [round_decimal |-> rd], output_fields |-> Null]

ExplicitReq(rd, prd) ==
  [valid |-> TRUE, search_params |-> [anns_field |-> "given", round_decimal |-> rd],
   vectors |-> Arr(<<<<1, 2>>, <<3, 4>>>>), vector |-> Null,
   params |-> IF prd = Undefined THEN Null ELSE [round_decimal |-> prd],
   output_fields |-> Null]

SearchReqs ==
  {SimpleReq(rd) : rd \in {Undefined, Num(-1), Num(1)}}
    \cup {ExplicitReq(Undefined, Undefined), ExplicitReq(Num(0), Num(1)),
          ExplicitReq(Undefined, Num(1))}
    \cup {[valid |-> FALSE, search_params |-> Null, vectors |-> Null, vector |-> Null,
           params |-> Null, output_fields |-> Null]}

\* the j-th entry of the flat columns of a response
ScoreAt(j) == 111 * j + 4
IdAt(j) == Num(200 + j)

OutputColumns(n) ==
  {<<>>,
   <<[type |-> "Int64", field_name |-> "age", field |-> "scalars",
      data |-> [j \in 1..n |-> Num(300 + j)]]>>,
   <<[type |-> "JSON", field_name |-> "js", field |-> "scalars",
      data |-> [j \in 1..n |-> Buf("{n:" \o ToString(400 + j) \o "}")]]>>}
    \cup (IF n > 0 THEN {}
          ELSE {<<[type |-> "Int64", field_name |-> "age", field |-> "undefined",
                   data |-> <<>>]>>})

\* the results of a response: columns of sum(topks) entries, and a scores array
\* that is one short, exact or one long
SearchResultsOf(topks) ==
  LET n == SumSeq(topks) IN
  {[topks |-> topks, scores |-> [j \in 1..m |-> ScoreAt(j)], ids |-> ids, fields_data |-> cols] :
     m \in {k \in {n - 1, n, n + 1} : k >= 0},
     ids \in {Null, [id_field |-> "int_id", data |-> [j \in 1..n |-> IdAt(j)]]},
     cols \in OutputColumns(n)}

SearchResponses ==
  {[status |-> Failure, results |-> Null], [status |-> Success, results |-> Null]}
    \cup {[status |-> Success, results |-> r] :
            r \in UNION {SearchResultsOf(t) : t \in SeqsUpTo(0..MaxTopk, MaxNq)}}

----------------------------------------------------------------------------
(* Data.search, step by step *)

\* checkSearchParams, then describeCollection is issued
SearchStart ==
  /\ sr_pc = "idle"
  /\ \E data \in SearchReqs :
       /\ sr_data' = data
       /\ IF ~data.valid
          THEN /\ sr_err' = Err("checkSearchParams", "")
               /\ sr_pc' = "failed"
               /\ UNCHANGED rpcLog
          ELSE /\ sr_pc' = "describing"
               /\ rpcLog' = Append(rpcLog, "DescribeCollection")
               /\ UNCHANGED sr_err
  /\ UNCHANGED <<collectionInfo, sr_req, sr_promise, sr_ret, ins_vars, q_vars, fl_vars>>

\* describeCollection answered: the request is built and Search is issued.
\* search does not look at collectionInfo.status; an answer without a schema
\* makes collectionInfo.schema.fields throw, which the catch rethrows
SearchDescribed ==
  /\ sr_pc = "describing"
  /\ IF collectionInfo.schema = Null
     THEN /\ sr_err' = Err("Error", "TypeError")
          /\ sr_pc' = "failed"
          /\ UNCHANGED <<sr_req, rpcLog>>
     ELSE /\ sr_req' = BuildSearch(collectionInfo.schema.fields, sr_data)
          /\ rpcLog' = Append(rpcLog, "Search")
          /\ sr_pc' = "searching"
          /\ UNCHANGED sr_err
  /\ UNCHANGED <<collectionInfo, sr_data, sr_promise, sr_ret, ins_vars, q_vars, fl_vars>>

\* the Search RPC answered: the rows are decoded and returned
SearchResponded ==
  /\ sr_pc = "searching"
  /\ \E promise \in SearchResponses :
       LET dec == DecodeResults(promise.results, sr_req.round_decimal) IN
       /\ sr_promise' = promise
       /\ IF dec.threw
          THEN /\ sr_err' = Err("Error", "TypeError")
               /\ sr_pc' = "failed"
               /\ UNCHANGED sr_ret
          ELSE /\ sr_ret' = [status |-> promise.status, results |-> dec.results]
               /\ sr_pc' = "done"
               /\ UNCHANGED sr_err
  /\ UNCHANGED <<collectionInfo, sr_data, sr_req, rpcLog, ins_vars, q_vars, fl_vars>>

SearchInit ==
  /\ collectionInfo \in CollectionInfosOver(SearchFieldPool)
  /\ InsertIdle /\ SearchIdle /\ QueryIdle /\ FlushIdle /\ srv_flushed = FALSE
  /\ rpcLog = <<>>

SearchNext == SearchStart \/ SearchDescribed \/ SearchResponded

SearchSpec == SearchInit /\ [][SearchNext]_vars

----------------------------------------------------------------------------
(* Data.query: decoding the response *)

\* (mutant: the dimension of a binary vector is not divided by 8)
QueryDimInBits(item) == [n |-> item.dim, over |-> 1]

\* item.vectors.data === 'float_vector' ? Number(dim) : Number(dim) / 8
QueryDim(item) ==
  [n |-> item.dim, over |-> IF item.dataKey = "float_vector" THEN 1 ELSE 8]

\* Math.floor(i / dim)
UnflattenIndex(i, dim) == (i * dim.over) \div dim.n

\* vectorValue.forEach((v, i) => ...): the array `data`, one array of pushed
\* elements per index reached; with a dimension of 0 or NaN the index is no
\* array index and `data` stays empty
Unflatten(vectorValue, dim) ==
  IF dim.n = NaN \/ dim.n = 0 \/ vectorValue = <<>> THEN <<>>
  ELSE [r \in 1..(UnflattenIndex(Len(vectorValue) - 1, dim) + 1) |->
          LET at == {i \in 1..Len(vectorValue) : UnflattenIndex(i - 1, dim) = r - 1} IN
          IF at = {} THEN Hole
          ELSE Arr(SubSeq(vectorValue,
                          CHOOSE i \in at : \A j \in at : i <= j,
                          CHOOSE i \in at : \A j \in at : j <= i))]

\* scalarValue.forEach((buffer, i) => scalarValue[i] = JSON.parse(...)) for
\* json_data, the array as it is for every other key
DecodeScalars(key, scalarValue) ==
  IF key = "json_data"
  THEN [i \in 1..Len(scalarValue) |->
          IF scalarValue[i] = Hole THEN Hole ELSE JSONParse(scalarValue[i])]
  ELSE scalarValue

\* promise.fields_data.map(...): the name and the per-row data of one column
DecodeColumn(item) ==
  [field_name |-> item.field_name,
   data |-> IF item.field = "vectors" THEN Unflatten(item.data, QueryDim(item))
            ELSE DecodeScalars(item.dataKey, item.data)]

\* { ...row, [name]: d } on the properties of a row object
SetKey(row, name, d) ==
  IF \E k \in 1..Len(row) : row[k].field_name = name
  THEN [k \in 1..Len(row) |->
          IF row[k].field_name = name THEN [field_name |-> name, value |-> d] ELSE row[k]]
  ELSE Append(row, [field_name |-> name, value |-> d])

RowObj(fields) == [t |-> "row", fields |-> fields]

\* v.data.forEach((d, i) => ...): forEach skips the holes of v.data
AddColumn(results, v) ==
  LET set == {i \in 1..Len(v.data) : v.data[i] # Hole}
      len == IF set = {} THEN Len(results)
             ELSE LET last == CHOOSE i \in set : \A j \in set : j <= i
                  IN IF last > Len(results) THEN last ELSE Len(results)
  IN [i \in 1..len |->
        IF i \in set
        THEN IF i > Len(results) \/ results[i] = Hole
             THEN RowObj(<<[field_name |-> v.field_name, value |-> v.data[i]]>>)
             ELSE RowObj(SetKey(results[i].fields, v.field_name, v.data[i]))
        ELSE IF i <= Len(results) THEN results[i] ELSE Hole]

\* fieldsData.forEach(v => ...), from column k on
RECURSIVE TransposeFrom(_, _, _)
TransposeFrom(results, fieldsData, k) ==
  IF k >= Len(fieldsData) THEN results
  ELSE TransposeFrom(AddColumn(results, fieldsData[k + 1]), fieldsData, k + 1)

\* the rows query returns for the columns of a response
DecodeQuery(fields_data) ==
  TransposeFrom(<<>>, [k \in 1..Len(fields_data) |-> DecodeColumn(fields_data[k])], 0)

----------------------------------------------------------------------------
(* The query requests and responses the model draws *)

MaxQueryRows == 2   \* rows of one query response
MaxQueryCols == 2   \* columns of one query response

QueryReqs ==
  {[collection_name |-> TRUE, limit |-> l, offset |-> o] :
     l \in {Undefined, Num(1)}, o \in {Undefined, Num(0)}}
    \cup {[collection_name |-> FALSE, limit |-> Undefined, offset |-> Undefined]}

QueryColumn(field, name, key, dim, data) ==
  [field |-> field, field_name |-> name, dataKey |-> key, dim |-> dim, data |-> data]

\* the columns a server sends for n rows: vectors flattened at their dimension
QueryColumnPool(n) ==
  {QueryColumn("vectors", "fv", "float_vector", d, [j \in 1..(n * d) |-> 10 + j]) :
     d \in {1, 2}}
    \cup {QueryColumn("vectors", "bv", "binary_vector", 8 * w, [j \in 1..(n * w) |-> 20 + j]) :
             w \in {1, 2}}
    \cup {QueryColumn("scalars", "js", "json_data", NoDim,
                      [j \in 1..n |-> Buf("{n:" \o ToString(j) \o "}")]),
          QueryColumn("scalars", "age", "long_data", NoDim, [j \in 1..n |-> Num(300 + j)])}

ServerQueryResponses ==
  {[status |-> Failure, fields_data |-> <<>>]}
    \cup {[status |-> Success, fields_data |-> cols] :
            cols \in UNION {{c \in SeqsUpTo(QueryColumnPool(n), MaxQueryCols) :
                               Len(c) >= 1 /\ DistinctFieldNames(c)} : n \in 0..MaxQueryRows}}

\* a column sent with Insert, as the server sends it back
EchoColumn(col) ==
  QueryColumn(col.key, col.field_name, col.dataKey, col.dim, col.data)

\* what the server answers to a query of everything the last insert stored
EchoResponse ==
  [status |-> Success,
   fields_data |-> IF ins_ret.status = Success
                   THEN [k \in 1..Len(ins_params.fields_data) |->
                           EchoColumn(ins_params.fields_data[k])]
                   ELSE <<>>]

QueryResponses == IF ins_pc = "done" THEN {EchoResponse} ELSE ServerQueryResponses

----------------------------------------------------------------------------
(* Data.query, step by step *)

\* checkCollectionName, the query_params, then Query is issued
QueryStart ==
  /\ q_pc = "idle"
  /\ \E data \in QueryReqs :
       /\ q_data' = data
       /\ IF ~data.collection_name
          THEN /\ q_err' = Err("COLLECTION_NAME_IS_REQUIRED", 0)
               /\ q_pc' = "failed"
               /\ UNCHANGED <<q_req, rpcLog>>
          ELSE /\ q_req' = [limit |-> IF data.limit.t = "number" THEN data.limit ELSE Undefined,
                            offset |-> IF data.offset.t = "number" THEN data.offset
                                       ELSE Undefined]
               /\ rpcLog' = Append(rpcLog, "Query")
               /\ q_pc' = "querying"
               /\ UNCHANGED q_err
  /\ UNCHANGED <<collectionInfo, q_promise, q_ret, ins_vars, sr_vars, fl_vars>>

\* the Query RPC answered: the columns are decoded into rows and returned
\* with the status of the response
QueryResponded ==
  /\ q_pc = "querying"
  /\ \E promise \in QueryResponses :
       /\ q_promise' = promise
       /\ q_ret' = [status |-> promise.status, data |-> DecodeQuery(promise.fields_data)]
  /\ q_pc' = "done"
  /\ UNCHANGED <<collectionInfo, q_data, q_req, q_err, rpcLog, ins_vars, sr_vars, fl_vars>>

\* query does not describe the collection
QueryInit ==
  /\ collectionInfo = [status |-> Failure, schema |-> Null]
  /\ InsertIdle /\ SearchIdle /\ QueryIdle /\ FlushIdle /\ srv_flushed = FALSE
  /\ rpcLog = <<>>

QueryNext == QueryStart \/ QueryResponded

QuerySpec == QueryInit /\ [][QueryNext]_vars

\* an insert followed by a query of what it stored
RoundTripNext == InsertNext \/ (ins_pc = "done" /\ QueryStart) \/ QueryResponded

RoundTripSpec == InsertInit /\ [][RoundTripNext]_vars

----------------------------------------------------------------------------
(* Data.flushSync *)

MaxPolls == 3      \* GetFlushState requests that are counted
MaxSegments == 2   \* segment ids of one collection in a Flush response

\* Object.keys(res.coll_segIDs).map(v => res.coll_segIDs[v].data)
\*   .reduce((pre, cur) => [...pre, ...cur], []), from key k on
RECURSIVE SegIDsFrom(_, _)
SegIDsFrom(coll_segIDs, k) ==
  IF k >= Len(coll_segIDs) THEN <<>>
  ELSE coll_segIDs[k + 1].data \o SegIDsFrom(coll_segIDs, k + 1)

\* (mutant: the loop is left after one pass whatever the response says)
LoopOnce(isFlushed) == FALSE

\* while (!isFlushed)
LoopContinues(isFlushed) == ~isFlushed

\* (mutant: the completion flag of the response is never taken over)
NeverFlushed(flushRes) == FALSE

\* isFlushed = flushRes.flushed
IsFlushedOf(flushRes) == flushRes.flushed

\* the FlushReq values the model draws: one or two collections, none, or no
\* array at all
FlushReqs ==
  {[collection_names |-> Arr(n)] : n \in {<<"a">>, <<"b">>, <<"a", "b">>, <<"b", "a">>, <<>>}}
    \cup {[collection_names |-> Undefined]}

\* the Flush responses: the segment ids of every collection flushed, keyed in
\* the order of the request
FlushResponses(names) ==
  {[status |-> Success,
    coll_segIDs |-> [k \in 1..Len(names) |-> [name |-> names[k], data |-> d[k]]]] :
     d \in [1..Len(names) -> SeqsUpTo({1, 2}, MaxSegments)]}

\* this.getFlushState({ segmentIDs: segIDs }): segIDs is an array, so the
\* parameter check of getFlushState passes and GetFlushState is sent for fl_segIDs
SendGetFlushState ==
  /\ fl_pc' = "polling"
  /\ fl_polls' = Min(fl_polls + 1, MaxPolls)

\* the argument check, then Flush is issued
FlushSyncStart ==
  /\ fl_pc = "idle"
  /\ \E data \in FlushReqs :
       /\ fl_data' = data
       /\ IF data.collection_names = Undefined \/ Len(data.collection_names.v) = 0
          THEN /\ fl_err' = Err("COLLECTION_NAME_IS_REQUIRED", 0)
               /\ fl_pc' = "failed"
          ELSE /\ fl_pc' = "flushing"
               /\ UNCHANGED fl_err
  /\ UNCHANGED <<collectionInfo, fl_res, fl_segIDs, fl_flushRes, fl_isFlushed, fl_ret,
                 fl_polls, fl_sleeps, srv_flushed, rpcLog, ins_vars, sr_vars, q_vars>>

\* the Flush RPC answered: segIDs are collected, the loop is entered and the
\* first GetFlushState is sent
FlushResponded ==
  /\ fl_pc = "flushing"
  /\ \E res \in FlushResponses(fl_data.collection_names.v) :
       /\ fl_res' = res
       /\ fl_segIDs' = SegIDsFrom(res.coll_segIDs, 0)
  /\ fl_isFlushed' = FALSE
  /\ fl_flushRes' = Null
  /\ IF LoopContinues(FALSE)
     THEN SendGetFlushState /\ UNCHANGED fl_ret
     ELSE fl_pc' = "done" /\ fl_ret' = Null /\ UNCHANGED fl_polls
  /\ UNCHANGED <<collectionInfo, fl_data, fl_err, fl_sleeps, srv_flushed, rpcLog,
                 ins_vars, sr_vars, q_vars>>

\* GetFlushState answered: flushRes is set and sleep(100) starts
GetFlushStateResponded ==
  /\ fl_pc = "polling"
  /\ fl_flushRes' = [status |-> Success, flushed |-> srv_flushed]
  /\ fl_sleeps' = 0
  /\ fl_pc' = "sleeping"
  /\ UNCHANGED <<collectionInfo, fl_data, fl_res, fl_segIDs, fl_isFlushed, fl_ret, fl_err,
                 fl_polls, srv_flushed, rpcLog, ins_vars, sr_vars, q_vars>>

\* sleep(100) is over: isFlushed is set and the loop condition is tested; the
\* call returns flushRes or sends the next GetFlushState
SleepDone ==
  /\ fl_pc = "sleeping"
  /\ fl_sleeps' = fl_sleeps + 1
  /\ fl_isFlushed' = IsFlushedOf(fl_flushRes)
  /\ IF LoopContinues(IsFlushedOf(fl_flushRes))
     THEN SendGetFlushState /\ UNCHANGED fl_ret
     ELSE fl_pc' = "done" /\ fl_ret' = fl_flushRes /\ UNCHANGED fl_polls
  /\ UNCHANGED <<collectionInfo, fl_data, fl_res, fl_segIDs, fl_flushRes, fl_err,
                 srv_flushed, rpcLog, ins_vars, sr_vars, q_vars>>

\* the server finishes flushing the segments, or takes in new data for them
ServerFlushState ==
  /\ srv_flushed' = ~srv_flushed
  /\ UNCHANGED <<collectionInfo, fl_pc, fl_data, fl_res, fl_segIDs, fl_flushRes, fl_isFlushed,
                 fl_ret, fl_err, fl_polls, fl_sleeps, rpcLog, ins_vars, sr_vars, q_vars>>

\* flushSync does not describe the collection
FlushInit ==
  /\ collectionInfo = [status |-> Failure, schema |-> Null]
  /\ InsertIdle /\ SearchIdle /\ QueryIdle /\ FlushIdle /\ srv_flushed = FALSE
  /\ rpcLog = <<>>

FlushNext ==
  FlushSyncStart \/ FlushResponded \/ GetFlushStateResponded \/ SleepDone \/ ServerFlushState

FlushSpec == FlushInit /\ [][FlushNext]_vars

\* every RPC is answered and every sleep(100) ends
FlushFairSpec ==
  /\ FlushSpec
  /\ WF_vars(FlushResponded)
  /\ WF_vars(GetFlushStateResponded)
  /\ WF_vars(SleepDone)

----------------------------------------------------------------------------
(* Claims about Data.search: result decoding *)

Decoded == sr_pc = "done" /\ sr_promise.results # Null

\* what the result row at 0-based position r of the whole response holds when
\* ids and every output column are read at absolute index r
RowReadAt(row, r) ==
  LET res == sr_promise.results IN
  /\ row.id = (IF res.ids = Null THEN Str("") ELSE At(res.ids.data, r))
  /\ \A k \in 1..Len(res.fields_data) :
       LET col == res.fields_data[k]
           cell == IF col.field = "undefined" THEN Undefined ELSE At(col.data, r)
       IN row.fields[k].value =
            (IF col.type = "JSON" /\ cell # Undefined THEN Obj(cell.v) ELSE cell)

\* C1: every returned row reads its id and its output-field values at the
\* absolute index (sum of the prior queries' topks) + rank, an index that grows
\* by one from each row of the response to the next.
C1_AbsoluteCursor ==
  Decoded =>
    \A r \in 1..Len(sr_ret.results) : RowReadAt(sr_ret.results[r], r - 1)

\* C2: with at least sum(topks) scores, search returns exactly sum(topks) rows
\* and the r-th row carries the r-th score of the response (at the precision
\* round_decimal asks for).
C2_ScoresInOrder ==
  (Decoded /\ Len(sr_promise.results.scores) >= SumSeq(sr_promise.results.topks)) =>
    /\ Len(sr_ret.results) = SumSeq(sr_promise.results.topks)
    /\ \A r \in 1..Len(sr_ret.results) :
         sr_ret.results[r].score =
           FixedScore(sr_promise.results.scores[r], sr_req.round_decimal)

\* two queries with different counts decoded, no score left out
C2_Witness ==
  /\ Decoded
  /\ sr_promise.results.topks = <<2, 3>>
  /\ Len(sr_promise.results.scores) = 6
  /\ Len(sr_ret.results) = 5
  /\ sr_ret.results[3].score = ScoreAt(3)

----------------------------------------------------------------------------
(* Claims about Data.insert *)

\* insert got past its argument checks and a schema was answered
Resolved ==
  /\ ins_pc \in {"failed", "inserting", "done"}
  /\ ins_data.collection_name
  /\ Len(ins_data.fields_data) > 0
  /\ collectionInfo.status.error_code = "Success"

\* the Insert RPC was issued
Emitted == ins_pc \in {"inserting", "done"}

Rows == ins_data.fields_data
SchemaFields == collectionInfo.schema.fields

\* the schema fields that are not (primary key and autoID)
InsertableFields ==
  SelectSeq(SchemaFields, LAMBDA f : ~(f.is_primary_key /\ f.autoID))

InsertableNamed(name) ==
  {k \in 1..Len(InsertableFields) : InsertableFields[k].name = name}

Supplies(row, name) == \E j \in 1..Len(row) : row[j].name = name
Supplied(row, name) == row[CHOOSE j \in 1..Len(row) : row[j].name = name].value

SuppliedRows(name) == {i \in 1..Len(Rows) : Supplies(Rows[i], name)}

LastSupplied(name) ==
  IF SuppliedRows(name) = {} THEN 0
  ELSE CHOOSE i \in SuppliedRows(name) : \A j \in SuppliedRows(name) : j <= i

\* the lengths of the values the rows supply for a field, in row order
SuppliedLengths(name) ==
  [i \in 1..Len(Rows) |->
     IF Supplies(Rows[i], name) THEN Len(Supplied(Rows[i], name)) ELSE 0]

CompleteRows ==
  \A i \in 1..Len(Rows) : \A k \in 1..Len(InsertableFields) :
    LET f == InsertableFields[k] IN
    /\ Supplies(Rows[i], f.name)
    /\ f.data_type = "FloatVector" => Len(Supplied(Rows[i], f.name)) = f.dim

----------------------------------------------------------------------------
(* Claims about Data.search: building the request *)

\* search built its request from an answered schema
Built == sr_pc \in {"searching", "done"} \/ (sr_pc = "failed" /\ sr_req # Null)

VectorFieldsAt ==
  {k \in 1..Len(SchemaFields) : SchemaFields[k].data_type \in VectorTypes}

FirstVectorField ==
  SchemaFields[CHOOSE k \in VectorFieldsAt : \A j \in VectorFieldsAt : k <= j]

LastVectorField ==
  SchemaFields[CHOOSE k \in VectorFieldsAt : \A j \in VectorFieldsAt : j <= k]

\* the request is the one the vector field f drives: the placeholder's type, the
\* packing of every query vector and, when search synthesizes the search
\* params, their anns field
DrivenBy(f) ==
  /\ sr_req.placeholder.type = f.data_type
  /\ \A k \in 1..Len(sr_req.placeholder.values) :
       sr_req.placeholder.values[k].packing =
         (IF f.data_type = "BinaryVector" THEN "binary" ELSE "float")
  /\ sr_data.search_params = Null => sr_req.search_params.anns_field = f.name

\* C4 as stated: the FIRST vector field of the schema drives the request.
C4_FirstVectorField ==
  (Built /\ VectorFieldsAt # {}) => DrivenBy(FirstVectorField)

\* C4 (amended): the LAST vector field of the schema drives the request.
C4_LastVectorField ==
  (Built /\ VectorFieldsAt # {}) => DrivenBy(LastVectorField)

\* a simple search on a schema of a float vector followed by a binary vector
C4_Witness ==
  /\ Built
  /\ sr_data.search_params = Null
  /\ Cardinality(VectorFieldsAt) = 2
  /\ FirstVectorField.data_type = "FloatVector"
  /\ sr_req.placeholder.type = "BinaryVector"
  /\ sr_req.search_params.anns_field = "bv"

\* C5 as stated: without a vector field in the schema search fails before the
\* Search RPC is sent.
C5_NoVectorFieldNoSearch ==
  (sr_pc \notin {"idle", "describing"} /\ sr_data.valid
     /\ collectionInfo.schema # Null /\ VectorFieldsAt = {}) =>
    /\ sr_pc = "failed"
    /\ \A k \in 1..Len(rpcLog) : rpcLog[k] # "Search"

----------------------------------------------------------------------------
(* Claims about Data.insert: validation *)

NoInsertSent == \A k \in 1..Len(rpcLog) : rpcLog[k] # "Insert"

\* the (row, key) positions of the request, in the order insert visits them
CellPositions ==
  UNION {{<<i, j>> : j \in 1..Len(Rows[i])} : i \in 1..Len(Rows)}

Before(a, b) == a[1] < b[1] \/ (a[1] = b[1] /\ a[2] < b[2])
First(S) == CHOOSE c \in S : \A d \in S : c = d \/ Before(c, d)
CellOf(c) == Rows[c[1]][c[2]]

\* a key that names no insertable field of the schema
UnknownCells == {c \in CellPositions : InsertableNamed(CellOf(c).name) = {}}

\* a value for a binary vector field whose length is not dim / 8
WrongDimCells ==
  {c \in CellPositions :
     \E k \in InsertableNamed(CellOf(c).name) :
       /\ InsertableFields[k].data_type = "BinaryVector"
       /\ \/ InsertableFields[k].dim = NoDim
          \/ Len(CellOf(c).value) * 8 # InsertableFields[k].dim}

Offending == UnknownCells \cup WrongDimCells

\* the insertable vector fields without a 'dim' type param
MissingDimAt ==
  {k \in 1..Len(InsertableFields) :
     InsertableFields[k].data_type \in VectorTypes /\ InsertableFields[k].dim = NoDim}

\* insert failed with the error of the first offending (row, key)
FailedOnFirstOffending ==
  /\ ins_pc = "failed"
  /\ NoInsertSent
  /\ LET unknown == UnknownCells
         first == First(unknown \cup WrongDimCells)
     IN IF first \in unknown
        THEN /\ ins_err.kind = "INSERT_CHECK_WRONG_FIELD"
             /\ ins_err.detail = First(unknown)[1] - 1
        ELSE ins_err.kind = "INSERT_CHECK_WRONG_DIM"

\* C6 as stated (on schemas whose vector fields all have a dimension): a key
\* outside the resolved schema fails the call with the wrong-field error that
\* carries the index of the first such row.
C6_UnknownFieldFails ==
  (Resolved /\ MissingDimAt = {} /\ UnknownCells # {}) =>
    /\ ins_pc = "failed"
    /\ NoInsertSent
    /\ ins_err.kind = "INSERT_CHECK_WRONG_FIELD"
    /\ ins_err.detail = First(UnknownCells)[1] - 1

\* C6 (amended): a key outside the resolved schema fails the call before the
\* Insert RPC; the error is the wrong-field error with the index of the first
\* such row unless insert met, earlier in row order and key order, a binary
\* vector of the wrong length, whose dimension error it throws instead.
C6_UnknownFieldFailsUnlessWrongDimFirst ==
  (Resolved /\ UnknownCells # {}) => FailedOnFirstOffending

\* the second row names the autoID primary key
C6_Witness ==
  /\ Resolved
  /\ Len(Rows) = 2 /\ Len(Rows[1]) = 1 /\ Len(Rows[2]) = 1
  /\ Rows[2][1].name = "id"
  /\ ins_pc = "failed"
  /\ ins_err.kind = "INSERT_CHECK_WRONG_FIELD"
  /\ ins_err.detail = 1

\* C7 as stated (on schemas whose vector fields all have a dimension): a binary
\* vector whose length is not dim / 8 fails the call with the dimension error,
\* and a length of exactly dim / 8 never does.
C7_WrongDimFails ==
  /\ (Resolved /\ MissingDimAt = {} /\ WrongDimCells # {}) =>
       /\ ins_pc = "failed"
       /\ NoInsertSent
       /\ ins_err.kind = "INSERT_CHECK_WRONG_DIM"
  /\ (Resolved /\ ins_err.kind = "INSERT_CHECK_WRONG_DIM") => WrongDimCells # {}

\* C7 (amended): a binary vector whose length is not dim / 8 fails the call
\* before the Insert RPC; the error is the dimension error unless insert met,
\* earlier in row order and key order, a key outside the resolved schema, whose
\* wrong-field error it throws instead.  A length of exactly dim / 8 never
\* raises the dimension error.
C7_WrongDimFailsUnlessUnknownFirst ==
  /\ (Resolved /\ WrongDimCells # {}) => FailedOnFirstOffending
  /\ (Resolved /\ ins_err.kind = "INSERT_CHECK_WRONG_DIM") =>
       /\ WrongDimCells # {}
       /\ First(Offending) \in WrongDimCells

\* the second row supplies two bytes for a binary vector of 8 bits
C7_Witness ==
  /\ Resolved
  /\ Len(Rows) = 2 /\ Len(Rows[1]) = 1 /\ Len(Rows[2]) = 1
  /\ Rows[1][1].name = "bv" /\ Len(Rows[1][1].value) = 1
  /\ Rows[2][1].name = "bv" /\ Len(Rows[2][1].value) = 2
  /\ \E k \in InsertableNamed("bv") : InsertableFields[k].dim = 8
  /\ ins_pc = "failed"
  /\ ins_err.kind = "INSERT_CHECK_WRONG_DIM"

\* C8 as stated: a vector field without a 'dim' type param fails the call; no
\* column is built and no Insert RPC is sent.
C8_MissingDimFails ==
  (Resolved /\ MissingDimAt # {}) =>
    /\ ins_pc = "failed"
    /\ ins_params = Null
    /\ NoInsertSent

\* C9: the columns sent with Insert are the schema fields that are not
\* (primary key and autoID), one column each, in schema order.
C9_ColumnsInSchemaOrder ==
  Emitted =>
    /\ Len(ins_params.fields_data) = Len(InsertableFields)
    /\ \A k \in 1..Len(InsertableFields) :
         ins_params.fields_data[k].field_name = InsertableFields[k].name

\* a non-autoID primary key after a vector, supplied in the opposite order
C9_Witness ==
  /\ Emitted
  /\ Len(SchemaFields) = 2
  /\ SchemaFields[2].is_primary_key
  /\ Len(Rows) = 1 /\ Len(Rows[1]) = 2
  /\ Rows[1][1].name = SchemaFields[2].name
  /\ Rows[1][2].name = SchemaFields[1].name
  /\ ins_params.fields_data[2].field_name = "id"

SupportedTypes ==
  {"FloatVector", "BinaryVector", "Double", "Float", "Int64", "Int32", "Int16",
   "Int8", "Bool", "VarChar", "JSON"}

UnsupportedAt ==
  {k \in 1..Len(InsertableFields) : InsertableFields[k].data_type \notin SupportedTypes}

FirstUnsupported ==
  InsertableFields[CHOOSE k \in UnsupportedAt : \A j \in UnsupportedAt : k <= j]

\* the wrong-data-type error is only raised for a field of an unsupported type
OnlyUnsupportedRaises ==
  (Resolved /\ ins_err.kind = "INSERT_CHECK_WRONG_DATA_TYPE") =>
    /\ UnsupportedAt # {}
    /\ ins_err.detail = FirstUnsupported.data_type

\* C10 as stated: a resolved field of an unsupported type fails the call with
\* the wrong-data-type error naming the type, whatever the rows supply.
C10_UnsupportedTypeFails ==
  /\ (Resolved /\ UnsupportedAt # {}) =>
       /\ ins_pc = "failed"
       /\ NoInsertSent
       /\ ins_err.kind = "INSERT_CHECK_WRONG_DATA_TYPE"
       /\ ins_err.detail = FirstUnsupported.data_type
  /\ OnlyUnsupportedRaises

\* C10 (amended): a resolved field of an unsupported type fails the call before
\* the Insert RPC, whatever the rows supply; the error is the wrong-data-type
\* error naming the type of the first such field unless a row holds a key
\* outside the resolved schema or a binary vector of the wrong length, whose
\* error is thrown first.  No field of a supported type raises it.
C10_UnsupportedTypeFailsAfterRowChecks ==
  /\ (Resolved /\ UnsupportedAt # {}) =>
       IF Offending # {} THEN FailedOnFirstOffending
       ELSE /\ ins_pc = "failed"
            /\ NoInsertSent
            /\ ins_err.kind = "INSERT_CHECK_WRONG_DATA_TYPE"
            /\ ins_err.detail = FirstUnsupported.data_type
  /\ OnlyUnsupportedRaises

\* a field of an unsupported type that no row supplies, after a supplied one
C10_Witness ==
  /\ Resolved
  /\ Len(InsertableFields) = 2
  /\ UnsupportedAt = {2}
  /\ Len(Rows) = 2
  /\ \A i \in 1..2 : Len(Rows[i]) = 1 /\ Rows[i][1].name = InsertableFields[1].name
  /\ ins_pc = "failed"
  /\ ins_err.kind = "INSERT_CHECK_WRONG_DATA_TYPE"
  /\ ins_err.detail = "String"

----------------------------------------------------------------------------
(* Claims about Data.search: score formatting *)

\* the round_decimal of the request: the explicit shape's when it defines one,
\* otherwise the simple shape's params.round_decimal
RequestedRoundDecimal ==
  IF sr_data.search_params # Null /\ sr_data.search_params.round_decimal # Undefined
  THEN sr_data.search_params.round_decimal
  ELSE IF sr_data.params # Null THEN sr_data.params.round_decimal
  ELSE Undefined

\* C11: every returned score is the raw score of the response when the
\* request's round_decimal (search_params.round_decimal if defined, otherwise
\* params.round_decimal) is undefined or -1, and otherwise the raw score
\* formatted to that many decimal digits.
C11_ScoresAtRoundDecimal ==
  Decoded =>
    \A r \in 1..Len(sr_ret.results) :
      LET raw == sr_promise.results.scores[r]
          rd == RequestedRoundDecimal
      IN sr_ret.results[r].score =
           (IF rd = Undefined \/ rd = Num(-1) THEN raw
            ELSE FormatNumberPrecision(raw, rd.v))

\* an explicit request with round_decimal 0 and params.round_decimal 1: the
\* score 1.15 comes back as 1
C11_Witness ==
  /\ Decoded
  /\ sr_data.search_params # Null
  /\ sr_data.search_params.round_decimal = Num(0)
  /\ sr_data.params # Null
  /\ sr_data.params.round_decimal = Num(1)
  /\ Len(sr_ret.results) >= 2
  /\ sr_promise.results.scores[1] = 115
  /\ sr_ret.results[1].score = 100

----------------------------------------------------------------------------
(* Claims about the status of the responses *)

\* the call failed and its message is the reason of the status
FailedWithReason(pc, err, status) ==
  /\ pc = "failed"
  /\ err.kind = "reason"
  /\ err.detail = status.reason

\* C12 as stated: a non-zero status.error_code in the collection description
\* fetched by insert or search, or in the Insert, Search or Query response,
\* fails the call with the server's reason as its message; no call completes
\* with such a status.
C12_StatusReasonSurfaces ==
  /\ (ins_pc \in {"failed", "inserting", "done"} /\ ins_data.collection_name
        /\ Len(ins_data.fields_data) > 0
        /\ collectionInfo.status.error_code # "Success") =>
       FailedWithReason(ins_pc, ins_err, collectionInfo.status)
  /\ ins_pc = "done" => ins_ret.status.error_code = "Success"
  /\ (sr_pc \in {"failed", "searching", "done"} /\ sr_data.valid
        /\ collectionInfo.status.error_code # "Success") =>
       FailedWithReason(sr_pc, sr_err, collectionInfo.status)
  /\ (sr_promise # Null /\ sr_promise.status.error_code # "Success") =>
       FailedWithReason(sr_pc, sr_err, sr_promise.status)
  /\ (q_promise # Null /\ q_promise.status.error_code # "Success") =>
       FailedWithReason(q_pc, q_err, q_promise.status)

----------------------------------------------------------------------------
(* Claims about Data.query: result decoding *)

HasField(row, name) ==
  row # Hole /\ \E k \in 1..Len(row.fields) : row.fields[k].field_name = name

FieldOf(row, name) ==
  row.fields[CHOOSE k \in 1..Len(row.fields) : row.fields[k].field_name = name].value

\* the width of the per-row vectors of a vector column of the response
WireWidth(item) ==
  IF item.dataKey = "float_vector" THEN item.dim ELSE item.dim \div 8

\* C13: a vector column of flat length n and wire dimension d is cut into
\* per-row vectors of width w = d (float vector) or d / 8 (binary vector):
\* for every r < n / w, result row r holds the flat elements r*w .. r*w + w - 1
\* in their order.
C13_VectorsUnflattened ==
  q_pc = "done" =>
    \A k \in 1..Len(q_promise.fields_data) :
      LET item == q_promise.fields_data[k]
          w == WireWidth(item)
      IN item.field = "vectors" =>
           \A r \in 0..((Len(item.data) \div w) - 1) :
             /\ r + 1 <= Len(q_ret.data)
             /\ HasField(q_ret.data[r + 1], item.field_name)
             /\ FieldOf(q_ret.data[r + 1], item.field_name) =
                  Arr(SubSeq(item.data, r * w + 1, r * w + w))

\* a binary vector column of 16 bits and 4 bytes decoded into two rows of 2 bytes
C13_Witness ==
  /\ q_pc = "done"
  /\ \E k \in 1..Len(q_promise.fields_data) :
       /\ q_promise.fields_data[k].dataKey = "binary_vector"
       /\ q_promise.fields_data[k].dim = 16
       /\ q_promise.fields_data[k].data = <<21, 22, 23, 24>>
  /\ Len(q_ret.data) = 2
  /\ HasField(q_ret.data[2], "bv")
  /\ FieldOf(q_ret.data[2], "bv") = Arr(<<23, 24>>)

----------------------------------------------------------------------------
(* Claims about the round trip from Data.insert to Data.query *)

\* the query decoded the columns the insert sent
RoundTripped ==
  /\ ins_pc = "done" /\ ins_ret.status = Success
  /\ q_pc = "done"

\* the decoded value d is the value the row supplied for a field of that type
SameValue(d, supplied, type) ==
  IF type \in VectorTypes THEN d.t = "array" /\ d.v = supplied
  ELSE d = supplied

TypeOfField(name) ==
  InsertableFields[CHOOSE k \in 1..Len(InsertableFields) :
                     InsertableFields[k].name = name].data_type

\* C14 as stated: for every request insert accepts, decoding the columns it
\* sent gives back as many rows as the request holds, and in row i every
\* value that row i supplied (vectors element for element, JSON values
\* structurally equal).
C14_RoundTrip ==
  RoundTripped =>
    /\ Len(q_ret.data) = Len(Rows)
    /\ \A i \in 1..Len(Rows) : \A j \in 1..Len(Rows[i]) :
         LET name == Rows[i][j].name IN
         /\ HasField(q_ret.data[i], name)
         /\ SameValue(FieldOf(q_ret.data[i], name), Rows[i][j].value, TypeOfField(name))

----------------------------------------------------------------------------
(* Claims about Data.insert: JSON fields *)

\* the row has no value for the field: no such key, or null / undefined
Absent(row, name) ==
  ~Supplies(row, name) \/ Supplied(row, name) \in {Null, Undefined}

\* C15 as stated: the column of a JSON field holds, at the index of every row,
\* a buffer with the JSON text of the row's value, and with the text {} when
\* the row has no value for the field.
C15_JSONColumnPerRow ==
  Emitted =>
    \A k \in 1..Len(ins_params.fields_data) :
      LET col == ins_params.fields_data[k] IN
      col.type = "JSON" =>
        \A i \in 1..Len(Rows) :
          /\ i <= Len(col.data)
          /\ col.data[i] =
               (IF Absent(Rows[i], col.field_name) THEN Buf("{}")
                ELSE Buf(JSONStringify(Supplied(Rows[i], col.field_name))))

----------------------------------------------------------------------------
(* Claims about Data.insert: the caller's request *)

\* C16: whether insert succeeds or fails, the caller's request object, its
\* fields_data array, every row and every vector in the rows hold the values
\* they held when insert was called.
C16_InputNotMutated ==
  (ins_pc # "idle") =>
    /\ ins_caller.collection_name = ins_data.collection_name
    /\ ins_caller.num_rows = Undefined
    /\ ins_caller.fields_data.t = "array"
    /\ ins_caller.fields_data.v = ins_data.fields_data

\* two rows with a vector each were encoded into a column of the params object
C16_Witness ==
  /\ ins_pc = "done"
  /\ Len(Rows) = 2
  /\ Rows[1] = <<[name |-> "fv", value |-> <<1, 2>>]>>
  /\ Rows[2] = <<[name |-> "fv", value |-> <<3>>]>>
  /\ ins_params.num_rows = 2
  /\ \E k \in 1..Len(ins_params.fields_data) :
       ins_params.fields_data[k].data = <<1, 2, 3>>
  /\ ins_caller.fields_data.v = Rows

----------------------------------------------------------------------------
(* Claims about Data.flushSync *)

\* the segment ids of a Flush response, collection after collection
RECURSIVE SegmentsOf(_)
SegmentsOf(coll_segIDs) ==
  IF coll_segIDs = <<>> THEN <<>>
  ELSE Head(coll_segIDs).data \o SegmentsOf(Tail(coll_segIDs))

\* C17: the Flush RPC is answered before any GetFlushState poll is sent, and
\* the polls ask for the segment ids of that answer; flushSync returns only
\* after at least one poll, never while the polls so far reported
\* flushed = false, and it returns the response of the last poll.
C17_ReturnsAfterFlushedPoll ==
  /\ fl_polls >= 1 =>
       /\ fl_res # Null
       /\ fl_segIDs = SegmentsOf(fl_res.coll_segIDs)
  /\ fl_pc \in {"idle", "flushing", "failed"} => fl_polls = 0
  /\ fl_pc = "done" =>
       /\ fl_polls >= 1
       /\ fl_flushRes # Null
       /\ fl_flushRes.flushed
       /\ fl_ret = fl_flushRes

\* three polls or more, the last one flushed, for segments of two collections
C17_Witness ==
  /\ fl_pc = "done"
  /\ fl_polls = MaxPolls
  /\ Len(fl_res.coll_segIDs) = 2
  /\ fl_segIDs = <<2, 1, 1>>
  /\ fl_ret.flushed

Running == fl_pc \in {"flushing", "polling", "sleeping"}

\* C18: when every RPC is answered and every delay ends, a flushSync call
\* returns if the server reports flushed = true from some point on; a poll
\* after the first is sent when exactly one delay has ended since the
\* response of the poll before it; and after a response flushed = false the
\* next poll is always sent, however many polls were made.
C18_EventuallyReturns ==
  /\ (<>[]srv_flushed) => [](Running => <>(fl_pc = "done"))
  /\ [](fl_pc = "polling" => fl_sleeps = (IF fl_polls = 1 THEN 0 ELSE 1))
  /\ [][(fl_pc = "sleeping" /\ fl_pc' # "sleeping" /\ ~fl_flushRes.flushed)
          => fl_pc' = "polling"]_vars

\* the server kept reporting flushed = false for MaxPolls polls and more, then
\* flushed = true, and the call returned
C18_Witness ==
  /\ fl_pc = "done"
  /\ fl_polls = MaxPolls
  /\ fl_sleeps = 1
  /\ srv_flushed
  /\ fl_ret = [status |-> Success, flushed |-> TRUE]

====
